---- MODULE Spec2Model ----
(***************************************************************************)
(* Model of the ESP32 display backend (src/api/main.py, src/api/main_db.py)*)
(*                                                                         *)
(* The store is the SQLite database of init_db: the tables device,        *)
(* pairing, module and session.  A handler is a sequence of atomic         *)
(* segments: a SELECT outside a transaction reads the committed state; the *)
(* statements from the first INSERT/UPDATE up to conn.commit() run under   *)
(* SQLite's single write lock and are one atomic step.  device_config is a *)
(* coroutine: it runs atomically up to the await of the upstream HTTP call *)
(* and atomically again from the upstream answer to its return.            *)
(*                                                                         *)
(* secrets.token_urlsafe(24) (192 random bits) and generate_id (72 random  *)
(* bits) are modelled as fresh values; the 6-digit generate_code() is a    *)
(* draw from a small code space in which collisions do happen.             *)
(*                                                                         *)
(* Columns that no statement ever reads (device.created_at,                *)
(* module.updated_at) are left out.  The clock is in seconds.              *)
(***************************************************************************)
EXTENDS Integers, Sequences, FiniteSets, TLC

(***************************************************************************)
(* Bounds of the model                                                     *)
(***************************************************************************)
NumHw == 2
NumCodes == 2
NumWorkers == 2
NumPollers == 1
MaxTokens == 3
MaxSessions == 2
MaxTime == 60
MaxSessionTime == 120
MaxCacheTime == 360
MaxMsgLen == 40
MaxWidth == 17
MaxPad == 1
TickSeconds == 30

(***************************************************************************)
(* Program constants                                                       *)
(***************************************************************************)
\* PAIR_TTL_SECONDS and SESSION_TTL_MINUTES are read from the environment;
\* the model runs the configuration PAIR_TTL_SECONDS=30, SESSION_TTL_MINUTES=1.
PAIR_TTL_SECONDS == 30
SESSION_TTL_MINUTES == 1
\* for attempt in range(10)
CODE_ATTEMPTS == 10
MIN_PAIR_TTL == 300

HwUids == 1..NumHw
DevIds == 1..NumHw
Codes == 1..NumCodes
Workers == 1..NumWorkers

\* SQL NULL / Python None in an integer column or variable
Null == 0 - 1
\* fetchone() returning None
NoRow == [absent |-> TRUE]

VARIABLES
    now,        \* now_utc() / time.time()
    device,     \* table device: id -> row
    pairing,    \* table pairing: pair_code -> row
    session,    \* table session: session_token (index) -> row
    module,     \* table module: device_id -> row
    CACHE,      \* the process-wide cache of upstream data
    tokenCtr,   \* number of device tokens generated so far
    pc,         \* where each in-flight request stands
    loc,        \* the local variables of each in-flight request
    resp,       \* the response returned by the step just taken
    startLog,   \* per hardware_uid: the last two successful Start responses
    codeLog,    \* per pair code: the device_id its Start returned, the
                \* sessions that claims of it created
    lastSet     \* per device: the last body set_module accepted, and the
                \* keys of the params it replaced

vars == <<now, device, pairing, session, module, CACHE, tokenCtr, pc, loc,
          resp, startLog, codeLog, lastSet>>

(***************************************************************************)
(* Strings are sequences of one-character strings.                         *)
(***************************************************************************)
HELLO ==
    <<"H", "e", "l", "l", "o", " ", "f", "r", "o", "m", " ", "E", "S", "P",
      "3", "2", "!">>

NOT_CONFIGURED ==
    <<"N", "o", "t", " ", "c", "o", "n", "f", "i", "g", "u", "r", "e", "d">>

PICK_MODULE ==
    <<"P", "i", "c", "k", " ", "m", "o", "d", "u", "l", "e", " ", "i", "n",
      " ", "w", "e", "b", " ", "U", "I">>

ERR_FETCHING ==
    <<"E", "r", "r", " ", "f", "e", "t", "c", "h", "i", "n", "g", " ", "d",
      "a", "t", "a">>

PORTLAND ==
    <<"P", "o", "r", "t", "l", "a", "n", "d", ",", "U", "S">>

BTC_PREFIX ==
    <<"B", "T", "C", " ", "$">>

H24_PREFIX ==
    <<"2", "4", "h", " ">>

BTC_KEY ==
    <<"b", "t", "c", "_", "p", "r", "i", "c", "e">>

WX_PREFIX ==
    <<"w", "x", "_">>

\* str(None)
NONE_STR ==
    <<"N", "o", "n", "e">>

\* str(e) of the exceptions the render code can raise
E_INT_LITERAL ==
    <<"i", "n", "v", "a", "l", "i", "d", " ", "l", "i", "t", "e", "r", "a",
      "l", " ", "f", "o", "r", " ", "i", "n", "t", "(", ")", " ", "w", "i",
      "t", "h", " ", "b", "a", "s", "e", " ", "1", "0", ":", " ">>

E_INT_NONE ==
    <<"i", "n", "t", "(", ")", " ", "a", "r", "g", "u", "m", "e", "n", "t",
      " ", "m", "u", "s", "t", " ", "b", "e", " ", "a", " ", "s", "t", "r",
      "i", "n", "g", ",", " ", "a", " ", "b", "y", "t", "e", "s", "-", "l",
      "i", "k", "e", " ", "o", "b", "j", "e", "c", "t", " ", "o", "r", " ",
      "a", " ", "r", "e", "a", "l", " ", "n", "u", "m", "b", "e", "r", ",",
      " ", "n", "o", "t", " ", "'", "N", "o", "n", "e", "T", "y", "p", "e",
      "'">>

E_RANGE_ZERO ==
    <<"r", "a", "n", "g", "e", "(", ")", " ", "a", "r", "g", " ", "3", " ",
      "m", "u", "s", "t", " ", "n", "o", "t", " ", "b", "e", " ", "z", "e",
      "r", "o">>

E_INT_LOWER ==
    <<"'", "i", "n", "t", "'", " ", "o", "b", "j", "e", "c", "t", " ", "h",
      "a", "s", " ", "n", "o", " ", "a", "t", "t", "r", "i", "b", "u", "t",
      "e", " ", "'", "l", "o", "w", "e", "r", "'">>

E_NONE_LOWER ==
    <<"'", "N", "o", "n", "e", "T", "y", "p", "e", "'", " ", "o", "b", "j",
      "e", "c", "t", " ", "h", "a", "s", " ", "n", "o", " ", "a", "t", "t",
      "r", "i", "b", "u", "t", "e", " ", "'", "l", "o", "w", "e", "r", "'">>

\* the format string of the weather line, f"{temp}<C2><B0>C  Wind {wind}";
\* "<C2>" and "<B0>" stand for the two non-ASCII characters of the source
DEG_C_WIND ==
    <<"<C2>", "<B0>", "C", " ", " ", "W", "i", "n", "d", " ">>

UPPER == <<"A", "B", "C", "D", "E", "F", "G", "H", "I", "J", "K", "L", "M", "N", "O", "P", "Q", "R", "S", "T", "U", "V", "W", "X", "Y", "Z">>

LOWER == <<"a", "b", "c", "d", "e", "f", "g", "h", "i", "j", "k", "l", "m", "n", "o", "p", "q", "r", "s", "t", "u", "v", "w", "x", "y", "z">>

Min(a, b) == IF a < b THEN a ELSE b

\* str.lower()
LowerChar(c) ==
    IF \E i \in 1..Len(UPPER) : UPPER[i] = c
    THEN LOWER[CHOOSE i \in 1..Len(UPPER) : UPPER[i] = c]
    ELSE c

Lower(s) == [i \in 1..Len(s) |-> LowerChar(s[i])]

\* str.strip()
RECURSIVE LStrip(_)
LStrip(s) == IF Len(s) > 0 /\ s[1] = " " THEN LStrip(Tail(s)) ELSE s

RECURSIVE RStrip(_)
RStrip(s) ==
    IF Len(s) > 0 /\ s[Len(s)] = " " THEN RStrip(SubSeq(s, 1, Len(s) - 1)) ELSE s

Strip(s) == RStrip(LStrip(s))

DIGITS == <<"0", "1", "2", "3", "4", "5", "6", "7", "8", "9">>

IsDigit(c) == \E i \in 1..10 : DIGITS[i] = c

DigitValue(c) == (CHOOSE i \in 1..10 : DIGITS[i] = c) - 1

\* the decimal digits of n >= 0
RECURSIVE Digits(_)
Digits(n) ==
    IF n < 10 THEN <<DIGITS[n + 1]>>
    ELSE Digits(n \div 10) \o <<DIGITS[(n % 10) + 1]>>

\* str(n), f"{n}"
IntStr(n) == IF n < 0 THEN <<"-">> \o Digits(0 - n) ELSE Digits(n)

\* the value of a non-empty sequence of digits
RECURSIVE DigitsValue(_)
DigitsValue(s) ==
    IF Len(s) = 0 THEN 0
    ELSE 10 * DigitsValue(SubSeq(s, 1, Len(s) - 1)) + DigitValue(s[Len(s)])

(***************************************************************************)
(* JSON values of params: a string, an integer or null.  params is a       *)
(* function from keys to JSON values (json.dumps / json.loads give back    *)
(* the same mapping for these values).                                     *)
(***************************************************************************)
JStr(s) == [t |-> "str", s |-> s, n |-> 0]

JInt(n) == [t |-> "int", s |-> <<>>, n |-> n]

JNull == [t |-> "null", s |-> <<>>, n |-> 0]

\* {}
EmptyParams == [k \in {} |-> JNull]

\* params.get(key, default)
Get(params, key, default) ==
    IF key \in DOMAIN params THEN params[key] ELSE default

\* the result of an expression that may raise
Ok(v) == [ok |-> TRUE, v |-> v, err |-> <<>>]

Raise(e) == [ok |-> FALSE, v |-> 0, err |-> e]

\* str(value)
StrOf(v) ==
    IF v.t = "str" THEN v.s
    ELSE IF v.t = "int" THEN IntStr(v.n)
    ELSE NONE_STR

\* int(value)
IntOf(v) ==
    IF v.t = "int" THEN Ok(v.n)
    ELSE IF v.t = "null" THEN Raise(E_INT_NONE)
    ELSE LET s == Strip(v.s)
             neg == Len(s) > 0 /\ s[1] = "-"
             body == IF neg THEN Tail(s) ELSE s
         IN IF Len(body) > 0 /\ \A i \in 1..Len(body) : IsDigit(body[i])
            THEN Ok(IF neg THEN 0 - DigitsValue(body) ELSE DigitsValue(body))
            ELSE Raise(E_INT_LITERAL \o <<"'">> \o v.s \o <<"'">>)

(***************************************************************************)
(* Rendering (device_config)                                               *)
(***************************************************************************)
MAX_LINES == 4
DEFAULT_WIDTH == 16
TEXT_TTL == 60
TEXT_POLL == 15
BTC_TTL == 30
BTC_POLL == 15
WX_TTL == 300
WX_POLL == 60
ERR_TTL == 5
ERR_POLL == 5
ERR_CHARS == 18
UNCONFIGURED_TTL == 15
UNCONFIGURED_POLL == 10
BTC_CACHE_TTL == 30
WX_CACHE_TTL == 300
FALLBACK_PRICE == 50000
FALLBACK_TEMP == 20

ModuleTypes == {"text", "btc_price", "weather"}

\* the slices without the cap [:4]
TextLines_NoCap(msg, width) ==
    IF width = 0 THEN Raise(E_RANGE_ZERO)
    ELSE IF width < 0 THEN Ok(<<>>)
    ELSE LET count == (Len(msg) + width - 1) \div width
         IN Ok([k \in 1..count |->
                  SubSeq(msg, (k - 1) * width + 1, Min(k * width, Len(msg)))])

\* [msg[i:i+width] for i in range(0, len(msg), width)][:4], msg not empty
TextLines(msg, width) ==
    IF width = 0 THEN Raise(E_RANGE_ZERO)
    ELSE IF width < 0 THEN Ok(<<>>)
    ELSE LET count == (Len(msg) + width - 1) \div width
         IN Ok([k \in 1..Min(MAX_LINES, count) |->
                  SubSeq(msg, (k - 1) * width + 1, Min(k * width, Len(msg)))])

\* the text branch
RenderText(params) ==
    LET stripped == Strip(StrOf(Get(params, "message", JStr(HELLO))))
        msg == IF stripped = <<>> THEN HELLO ELSE stripped
        width == IntOf(Get(params, "max_chars", JInt(DEFAULT_WIDTH)))
    IN IF ~width.ok THEN Raise(width.err)
       ELSE LET lines == TextLines(msg, width.v)
            IN IF ~lines.ok THEN Raise(lines.err)
               ELSE Ok([lines |-> lines.v, ttl |-> TEXT_TTL, poll |-> TEXT_POLL])

\* f"{n:03d}"
Pad3(n) == <<DIGITS[(n \div 100) + 1], DIGITS[((n \div 10) % 10) + 1],
             DIGITS[(n % 10) + 1]>>

\* f"{price:,.0f}" for a whole, non-negative price
RECURSIVE Thousands(_)
Thousands(n) ==
    IF n < 1000 THEN Digits(n)
    ELSE Thousands(n \div 1000) \o <<",">> \o Pad3(n % 1000)

\* f"{chg:.2f}" for a change given in hundredths of a percent
Fixed2(h) ==
    LET a == IF h < 0 THEN 0 - h ELSE h
    IN (IF h < 0 THEN <<"-">> ELSE <<>>) \o Digits(a \div 100) \o <<".">>
       \o <<DIGITS[((a \div 10) % 10) + 1], DIGITS[(a % 10) + 1]>>

\* the btc_price branch, after get_btc_price() returned data
RenderBtc(data) ==
    [lines |-> <<BTC_PREFIX \o Thousands(data.price_usd),
                 H24_PREFIX \o (IF data.change_24h >= 0 THEN <<"+">> ELSE <<>>)
                    \o Fixed2(data.change_24h) \o <<"%">> >>,
     ttl |-> BTC_TTL, poll |-> BTC_POLL]

\* the weather branch, after get_weather(city) returned data
RenderWeather(data) ==
    [lines |-> <<data.city,
                 IntStr(data.temp_c) \o DEG_C_WIND \o IntStr(data.windspeed_kph)>>,
     ttl |-> WX_TTL, poll |-> WX_POLL]

\* except Exception as e: the error render
RenderError(err) ==
    [lines |-> <<ERR_FETCHING, SubSeq(err, 1, Min(ERR_CHARS, Len(err)))>>,
     ttl |-> ERR_TTL, poll |-> ERR_POLL]

\* no module row
RenderUnconfigured ==
    [lines |-> <<NOT_CONFIGURED, PICK_MODULE>>,
     ttl |-> UNCONFIGURED_TTL, poll |-> UNCONFIGURED_POLL]

\* key = f"wx_{city.lower()}"
WeatherKey(city) ==
    IF city.t = "str" THEN Ok(WX_PREFIX \o Lower(city.s))
    ELSE IF city.t = "int" THEN Raise(E_INT_LOWER)
    ELSE Raise(E_NONE_LOWER)

\* a read that never looks at expires_at
CacheGet_NoExpiry(cache, key, t) ==
    IF key \notin DOMAIN cache THEN NoRow ELSE cache[key].value

\* cache_get(key)
CacheGet(cache, key, t) ==
    IF key \notin DOMAIN cache \/ cache[key].expires_at < t
    THEN NoRow
    ELSE cache[key].value

\* cache_set(key, value, ttl)
CacheSet(cache, key, value, ttl, t) ==
    [k \in DOMAIN cache \cup {key} |->
        IF k = key THEN [value |-> value, expires_at |-> t + ttl] ELSE cache[k]]

\* a fetch helper that stores whatever it returns, the fallback included
CacheAfterFetch_Always(cache, key, ok, data, ttl, t) ==
    CacheSet(cache, key, data, ttl, t)

\* get_btc_price / get_weather: cache_set in the try block only
CacheAfterFetch(cache, key, ok, data, ttl, t) ==
    IF ok THEN CacheSet(cache, key, data, ttl, t) ELSE cache

\* get_btc_price(): the data of an upstream answer, the fallback on failure
BtcData(out) ==
    IF out.ok THEN [price_usd |-> out.a, change_24h |-> out.b]
    ELSE [price_usd |-> FALLBACK_PRICE, change_24h |-> 0]

\* get_weather(city): the data of the upstream answers, the defaults on failure
WeatherData(out, city) ==
    IF out.ok THEN [temp_c |-> out.a, windspeed_kph |-> out.b, city |-> out.name]
    ELSE [temp_c |-> FALLBACK_TEMP, windspeed_kph |-> 0, city |-> city]

(***************************************************************************)
(* Responses.  Every step records the response it returns, NoResp when the *)
(* step returns none.  A device_config response also records the           *)
(* device_token of its request.                                            *)
(***************************************************************************)
NoResp ==
    [op |-> "none", status |-> 0, detail |-> "", hw |-> 0, code |-> 0,
     token |-> 0, dev |-> 0, sess |-> 0, mtype |-> "", params |-> EmptyParams,
     lines |-> <<>>, ttl |-> 0, poll |-> 0]

NoLoc == [op |-> "none"]

(***************************************************************************)
(* Store statements                                                        *)
(***************************************************************************)
\* SELECT id FROM device WHERE hardware_uid=?
FindDeviceByHw(dev, hw) ==
    IF \E d \in DevIds : dev[d] # NoRow /\ dev[d].hardware_uid = hw
    THEN CHOOSE d \in DevIds : dev[d] # NoRow /\ dev[d].hardware_uid = hw
    ELSE Null

\* SELECT id FROM device WHERE device_token=?
FindDeviceByToken(dev, tok) ==
    IF \E d \in DevIds : dev[d] # NoRow /\ dev[d].device_token = tok
    THEN CHOOSE d \in DevIds : dev[d] # NoRow /\ dev[d].device_token = tok
    ELSE Null

\* generate_id("dev"): a value no row of device has
FreshId(dev) == CHOOSE d \in DevIds :
    dev[d] = NoRow /\ \A e \in DevIds : e < d => dev[e] # NoRow

\* INSERT INTO device (id, hardware_uid, device_token, created_at) VALUES (?, ?, "", ?)
InsertDevice(dev, id, hw) ==
    [dev EXCEPT ![id] = [hardware_uid |-> hw, device_token |-> 0]]

\* a pair_start that leaves the stored token as it is
RotateToken_Kept(dev, id, tok) == dev

\* UPDATE device SET device_token=? WHERE id=?
RotateToken(dev, id, tok) ==
    [dev EXCEPT ![id] = [@ EXCEPT !.device_token = tok]]

\* a draw that is never checked against the pairing table
DrawCode_Unchecked(attempts, rows) == Codes

\* for attempt in range(10): draw a code, break when no pairing row has it;
\* else: raise.  The set of results of the loop: a code, or 0 for the raise.
RECURSIVE DrawCode(_, _)
DrawCode(attempts, rows) ==
    IF attempts = 0
    THEN {0}
    ELSE {c \in Codes : rows[c] = NoRow}
         \cup (IF \E c \in Codes : rows[c] # NoRow
               THEN DrawCode(attempts - 1, rows)
               ELSE {})

\* INSERT OR REPLACE INTO pairing (pair_code, device_id, expires_at, claimed_at)
InsertOrReplacePairing(rows, code, id, exp) ==
    [rows EXCEPT ![code] =
        [device_id |-> id, expires_at |-> exp, claimed_at |-> Null]]

\* the checks without the expiry test
ClaimCheck_NoExpiry(row, t) ==
    IF row = NoRow THEN "Invalid code"
    ELSE IF row.claimed_at # Null THEN "Code already claimed"
    ELSE "ok"

\* the checks with the expiry test off by one (<= for <)
ClaimCheck_ExpiresEarly(row, t) ==
    IF row = NoRow THEN "Invalid code"
    ELSE IF row.claimed_at # Null THEN "Code already claimed"
    ELSE IF row.expires_at <= t THEN "Code expired"
    ELSE "ok"

\* pair_claim: the three checks on the row that SELECT returned
ClaimCheck(row, t) ==
    IF row = NoRow THEN "Invalid code"
    ELSE IF row.claimed_at # Null THEN "Code already claimed"
    ELSE IF row.expires_at < t THEN "Code expired"
    ELSE "ok"

\* INSERT INTO session (session_token, device_id, expires_at)
InsertSession(sess, id, exp) ==
    Append(sess, [device_id |-> id, expires_at |-> exp])

\* UPDATE pairing SET claimed_at=? WHERE pair_code=?
MarkClaimed(rows, code, t) ==
    IF rows[code] = NoRow THEN rows
    ELSE [rows EXCEPT ![code] = [@ EXCEPT !.claimed_at = t]]

(***************************************************************************)
(* History                                                                 *)
(***************************************************************************)
LogStart(log, hw, id, tok) ==
    [log EXCEPT ![hw] =
        IF Len(@) = 0 THEN <<[device_id |-> id, device_token |-> tok]>>
        ELSE <<@[Len(@)], [device_id |-> id, device_token |-> tok]>>]

InFlight(op) == Cardinality({w \in Workers : loc[w].op = op})

\* a request that is going to wait takes the first free slot
FreeWorker(w) ==
    pc[w] = "idle" /\ \A v \in Workers : v < w => pc[v] # "idle"

(***************************************************************************)
(* The initial state: the empty database after init_db, the empty CACHE    *)
(***************************************************************************)
Init ==
    /\ now = 0
    /\ device = [d \in DevIds |-> NoRow]
    /\ pairing = [c \in Codes |-> NoRow]
    /\ session = <<>>
    /\ module = [d \in DevIds |-> NoRow]
    /\ CACHE = <<>>
    /\ tokenCtr = 0
    /\ pc = [w \in Workers |-> "idle"]
    /\ loc = [w \in Workers |-> NoLoc]
    /\ resp = NoResp
    /\ startLog = [h \in HwUids |-> <<>>]
    /\ codeLog = [c \in Codes |-> [device_id |-> 0, sessions |-> {}]]
    /\ lastSet = [d \in DevIds |-> NoRow]

\* the clock advances
Advance(limit) ==
    /\ now + TickSeconds <= limit
    /\ now' = now + TickSeconds
    /\ resp' = NoResp
    /\ UNCHANGED <<device, pairing, session, module, CACHE, tokenCtr, pc, loc,
                   startLog, codeLog, lastSet>>

Tick == Advance(MaxTime)

(***************************************************************************)
(* POST /pair/start (main.py)                                              *)
(***************************************************************************)
\* up to the first write: SELECT id FROM device WHERE hardware_uid=?
StartBegin(w, hw) ==
    /\ FreeWorker(w)
    /\ tokenCtr + InFlight("start") < MaxTokens
    /\ pc' = [pc EXCEPT ![w] = "start_write"]
    /\ loc' = [loc EXCEPT ![w] =
                 [op |-> "start", hw |-> hw, row |-> FindDeviceByHw(device, hw)]]
    /\ resp' = NoResp
    /\ UNCHANGED <<now, device, pairing, session, module, CACHE, tokenCtr,
                   startLog, codeLog, lastSet>>

\* a failure after which the UPDATE of the token stays in the store
StartFails_Partial(w) ==
    /\ resp' = [NoResp EXCEPT !.op = "start", !.hw = loc[w].hw,
                              !.status = 500, !.detail = "Database error"]
    /\ device' = IF loc[w].row = Null THEN device
                 ELSE RotateToken(device, loc[w].row, tokenCtr + 1)
    /\ UNCHANGED <<pairing, tokenCtr, startLog, codeLog>>

\* except Exception: HTTPException(500, "Database error"); the transaction
\* is never committed
StartFails(w) ==
    /\ resp' = [NoResp EXCEPT !.op = "start", !.hw = loc[w].hw,
                              !.status = 500, !.detail = "Database error"]
    /\ UNCHANGED <<device, pairing, tokenCtr, startLog, codeLog>>

\* the write transaction: INSERT device, UPDATE token, the code loop,
\* INSERT OR REPLACE pairing, commit
StartCommit(w) ==
    /\ pc[w] = "start_write"
    /\ pc' = [pc EXCEPT ![w] = "idle"]
    /\ loc' = [loc EXCEPT ![w] = NoLoc]
    /\ UNCHANGED <<now, session, module, CACHE, lastSet>>
    /\ LET hw == loc[w].hw
           row == loc[w].row
           tok == tokenCtr + 1
       IN IF row = Null /\ FindDeviceByHw(device, hw) # Null
          THEN \* UNIQUE constraint failed: device.hardware_uid
               StartFails(w)
          ELSE \E code \in DrawCode(CODE_ATTEMPTS, pairing) :
               LET id == IF row = Null THEN FreshId(device) ELSE row
               IN
                 IF code = 0
                 THEN StartFails(w)
                 ELSE LET dev1 == IF row = Null THEN InsertDevice(device, id, hw)
                                  ELSE device
                      IN /\ device' = RotateToken(dev1, id, tok)
                         /\ pairing' = InsertOrReplacePairing(
                                          pairing, code, id, now + PAIR_TTL_SECONDS)
                         /\ tokenCtr' = tok
                         /\ resp' = [NoResp EXCEPT !.op = "start", !.hw = hw,
                                        !.status = 200, !.code = code,
                                        !.token = tok, !.dev = id]
                         /\ startLog' = LogStart(startLog, hw, id, tok)
                         /\ codeLog' = [codeLog EXCEPT ![code] =
                                          [device_id |-> id, sessions |-> {}]]

(***************************************************************************)
(* POST /pair/claim                                                        *)
(***************************************************************************)
\* SELECT device_id, expires_at, claimed_at FROM pairing WHERE pair_code=?
\* and the three checks
ClaimBegin(w, code) ==
    /\ FreeWorker(w)
    /\ Len(session) + InFlight("claim") < MaxSessions
    /\ LET row == pairing[code]
           verdict == ClaimCheck(row, now)
       IN IF verdict # "ok"
          THEN /\ resp' = [NoResp EXCEPT !.op = "claim", !.code = code,
                                         !.status = 400, !.detail = verdict]
               /\ UNCHANGED <<pc, loc>>
          ELSE /\ resp' = NoResp
               /\ pc' = [pc EXCEPT ![w] = "claim_write"]
               /\ loc' = [loc EXCEPT ![w] =
                            [op |-> "claim", code |-> code,
                             device_id |-> row.device_id]]
    /\ UNCHANGED <<now, device, pairing, session, module, CACHE, tokenCtr,
                   startLog, codeLog, lastSet>>

\* the write transaction: INSERT session, UPDATE pairing, commit
ClaimCommit(w) ==
    /\ pc[w] = "claim_write"
    /\ LET code == loc[w].code
           id == loc[w].device_id
       IN /\ session' = InsertSession(
                           session, id, now + SESSION_TTL_MINUTES * 60)
          /\ pairing' = MarkClaimed(pairing, code, now)
          /\ resp' = [NoResp EXCEPT !.op = "claim", !.code = code,
                         !.status = 200, !.dev = id, !.sess = Len(session')]
          /\ codeLog' = [codeLog EXCEPT ![code] =
                           [@ EXCEPT !.sessions = @ \cup {Len(session')}]]
    /\ pc' = [pc EXCEPT ![w] = "idle"]
    /\ loc' = [loc EXCEPT ![w] = NoLoc]
    /\ UNCHANGED <<now, device, module, CACHE, tokenCtr, startLog, lastSet>>

(***************************************************************************)
(* POST /device/{device_id}/module                                         *)
(***************************************************************************)
\* the lookup without the test of expires_at
SessionAuth_NoExpiry(rows, s, t) ==
    IF s = 0 THEN [status |-> 401, detail |-> "No session", dev |-> Null]
    ELSE IF s \notin 1..Len(rows)
    THEN [status |-> 401, detail |-> "Invalid session", dev |-> Null]
    ELSE [status |-> 200, detail |-> "", dev |-> rows[s].device_id]

\* get_session_device_id(sess); sess = 0 is the missing cookie
SessionAuth(rows, s, t) ==
    IF s = 0 THEN [status |-> 401, detail |-> "No session", dev |-> Null]
    ELSE IF s \notin 1..Len(rows)
    THEN [status |-> 401, detail |-> "Invalid session", dev |-> Null]
    ELSE IF rows[s].expires_at < t
    THEN [status |-> 401, detail |-> "Session expired", dev |-> Null]
    ELSE [status |-> 200, detail |-> "", dev |-> rows[s].device_id]

\* the checks without the comparison of the session's device with the path
SetModuleCheck_AnyDevice(auth, d, mtype) ==
    IF auth.status # 200 THEN [status |-> auth.status, detail |-> auth.detail]
    ELSE IF mtype \notin ModuleTypes
    THEN [status |-> 400, detail |-> "Unsupported module type"]
    ELSE [status |-> 200, detail |-> ""]

\* the checks of set_module before it writes
SetModuleCheck(auth, d, mtype) ==
    IF auth.status # 200 THEN [status |-> auth.status, detail |-> auth.detail]
    ELSE IF auth.dev # d
    THEN [status |-> 403, detail |-> "Session not authorized for this device"]
    ELSE IF mtype \notin ModuleTypes
    THEN [status |-> 400, detail |-> "Unsupported module type"]
    ELSE [status |-> 200, detail |-> ""]

\* an upsert without its key: every row of module takes the new config
UpsertModule_AllDevices(rows, d, mtype, params) ==
    [e \in DOMAIN rows |-> [type |-> mtype, params |-> params]]

\* an upsert that merges the new params into the stored ones
UpsertModule_Merge(rows, d, mtype, params) ==
    [rows EXCEPT ![d] =
        [type |-> mtype,
         params |-> IF rows[d] = NoRow THEN params
                    ELSE [k \in DOMAIN rows[d].params \cup DOMAIN params |->
                            IF k \in DOMAIN params THEN params[k]
                            ELSE rows[d].params[k]]]]

\* INSERT INTO module ... ON CONFLICT(device_id) DO UPDATE SET type=excluded.type,
\* params_json=excluded.params_json
UpsertModule(rows, d, mtype, params) ==
    [rows EXCEPT ![d] = [type |-> mtype, params |-> params]]

SetModule(d, s, mtype, params) ==
    /\ LET v == SetModuleCheck(SessionAuth(session, s, now), d, mtype)
       IN /\ resp' = [NoResp EXCEPT !.op = "set_module", !.status = v.status,
                                    !.detail = v.detail]
          /\ IF v.status = 200
             THEN /\ module' = UpsertModule(module, d, mtype, params)
                  /\ lastSet' = [lastSet EXCEPT ![d] =
                        [type |-> mtype, params |-> params,
                         replaced |-> IF module[d] = NoRow THEN {}
                                      ELSE DOMAIN module[d].params]]
             ELSE UNCHANGED <<module, lastSet>>
    /\ UNCHANGED <<now, device, pairing, session, CACHE, tokenCtr, pc, loc,
                   startLog, codeLog>>

(***************************************************************************)
(* GET /device/config                                                      *)
(***************************************************************************)
\* a render step without the inner try/except
RenderBoundary_Propagate(r) == r

\* try: ... except Exception as e: the error render
RenderBoundary(r) == IF r.ok THEN r ELSE Ok(RenderError(r.err))

\* return {"render": ..., "next_poll_sec": ...}; an exception that reaches
\* the outer except Exception is HTTPException(500, "Database error")
ConfigResp(r) ==
    IF r.ok
    THEN [NoResp EXCEPT !.op = "config", !.status = 200, !.lines = r.v.lines,
                        !.ttl = r.v.ttl, !.poll = r.v.poll]
    ELSE [NoResp EXCEPT !.op = "config", !.status = 500,
                        !.detail = "Database error"]

\* what device_config does with the module row up to its first await:
\* the render to return (wait = FALSE), or the upstream call to wait for
ConfigPlan(mrow, cache, t) ==
    IF mrow = NoRow THEN [wait |-> FALSE, result |-> Ok(RenderUnconfigured)]
    ELSE IF mrow.type = "text"
    THEN [wait |-> FALSE, result |-> RenderBoundary(RenderText(mrow.params))]
    ELSE IF mrow.type = "btc_price"
    THEN LET cached == CacheGet(cache, BTC_KEY, t)
         IN IF cached # NoRow
            THEN [wait |-> FALSE, result |-> RenderBoundary(Ok(RenderBtc(cached)))]
            ELSE [wait |-> TRUE, mtype |-> "btc_price", key |-> BTC_KEY,
                  city |-> <<>>]
    ELSE LET city == Get(mrow.params, "city", JStr(PORTLAND))
             key == WeatherKey(city)
         IN IF ~key.ok
            THEN [wait |-> FALSE, result |-> RenderBoundary(Raise(key.err))]
            ELSE LET cached == CacheGet(cache, key.v, t)
                 IN IF cached # NoRow
                    THEN [wait |-> FALSE,
                          result |-> RenderBoundary(Ok(RenderWeather(cached)))]
                    ELSE [wait |-> TRUE, mtype |-> "weather", key |-> key.v,
                          city |-> city.s]

\* from the request to the first await (or to the return)
ConfigBegin(w, tok) ==
    /\ FreeWorker(w)
    /\ LET d == FindDeviceByToken(device, tok)
       IN IF d = Null
          THEN /\ resp' = [NoResp EXCEPT !.op = "config", !.status = 401,
                                         !.detail = "Invalid device token",
                                         !.token = tok]
               /\ UNCHANGED <<pc, loc>>
          ELSE LET plan == ConfigPlan(module[d], CACHE, now)
               IN IF plan.wait
                  THEN /\ resp' = NoResp
                       /\ pc' = [pc EXCEPT ![w] = "fetch"]
                       /\ loc' = [loc EXCEPT ![w] =
                                    [op |-> "config", dev |-> d, token |-> tok,
                                     mtype |-> plan.mtype, key |-> plan.key,
                                     city |-> plan.city]]
                  ELSE /\ resp' = [ConfigResp(plan.result) EXCEPT !.token = tok]
                       /\ UNCHANGED <<pc, loc>>
    /\ UNCHANGED <<now, device, pairing, session, module, CACHE, tokenCtr,
                   startLog, codeLog, lastSet>>

\* the answers of the upstream: out.ok is a complete, well-formed answer;
\* ~out.ok is any failure (unreachable, timeout, HTTP error, city not found)
UpstreamFailure == [ok |-> FALSE, a |-> 0, b |-> 0, name |-> <<>>]

OSLO == <<"O", "s", "l", "o">>

\* the answers the price provider gives: (price, change in hundredths)
BtcAnswers ==
    {UpstreamFailure,
     [ok |-> TRUE, a |-> 1234567, b |-> 0 - 150, name |-> <<>>]}

\* the answers the weather provider gives: (temperature, wind, name)
WeatherAnswers ==
    {UpstreamFailure,
     [ok |-> TRUE, a |-> 0 - 3, b |-> 12, name |-> OSLO]}

Answers(l) == IF l.mtype = "btc_price" THEN BtcAnswers ELSE WeatherAnswers

\* from the upstream answer to the return
ConfigFetchDone(w, out) ==
    /\ pc[w] = "fetch"
    /\ out \in Answers(loc[w])
    /\ LET l == loc[w]
           data == IF l.mtype = "btc_price" THEN BtcData(out)
                   ELSE WeatherData(out, l.city)
           ttl == IF l.mtype = "btc_price" THEN BTC_CACHE_TTL ELSE WX_CACHE_TTL
       IN /\ CACHE' = CacheAfterFetch(CACHE, l.key, out.ok, data, ttl, now)
          /\ resp' = [ConfigResp(RenderBoundary(Ok(
                         IF l.mtype = "btc_price" THEN RenderBtc(data)
                         ELSE RenderWeather(data))))
                       EXCEPT !.token = l.token]
    /\ pc' = [pc EXCEPT ![w] = "idle"]
    /\ loc' = [loc EXCEPT ![w] = NoLoc]
    /\ UNCHANGED <<now, device, pairing, session, module, tokenCtr, startLog,
                   codeLog, lastSet>>

(***************************************************************************)
(* Inputs                                                                  *)
(***************************************************************************)
\* the bodies of POST /device/{device_id}/module that the service model draws
ServiceModules ==
    {[type |-> "text", params |-> EmptyParams],
     [type |-> "clock", params |-> EmptyParams]}

\* the bodies that the config model draws
ConfigModules ==
    {[type |-> "text", params |-> EmptyParams],
     [type |-> "text",
      params |-> [message |-> JStr(<<" ", "a", "b", " ", "c", "d", "e", " ">>),
                  max_chars |-> JInt(2)]],
     [type |-> "text", params |-> [max_chars |-> JStr(<<"x">>)]],
     [type |-> "text", params |-> [message |-> JNull, max_chars |-> JInt(0)]],
     [type |-> "text", params |-> [max_chars |-> JInt(0 - 4)]],
     [type |-> "btc_price", params |-> EmptyParams],
     [type |-> "weather", params |-> EmptyParams],
     [type |-> "weather", params |-> [city |-> JStr(OSLO)]],
     [type |-> "weather", params |-> [city |-> JInt(7)]],
     [type |-> "clock", params |-> EmptyParams]}

(***************************************************************************)
(* The service: pairing, sessions, module writes and config reads, with    *)
(* concurrent requests.  The bodies drawn are text modules, so that        *)
(* device_config returns without an upstream call.                         *)
(***************************************************************************)
Next ==
    \/ Tick
    \/ \E w \in Workers, hw \in HwUids : StartBegin(w, hw)
    \/ \E w \in Workers : StartCommit(w)
    \/ \E w \in Workers, code \in Codes : ClaimBegin(w, code)
    \/ \E w \in Workers : ClaimCommit(w)
    \/ \E d \in DevIds, s \in 0..MaxSessions, m \in ServiceModules :
         SetModule(d, s, m.type, m.params)
    \/ \E w \in Workers, tok \in 0..MaxTokens : ConfigBegin(w, tok)

Spec == Init /\ [][Next]_vars

(***************************************************************************)
(* Config resolution and rendering.  The run starts in the state the       *)
(* service is in at time 0 after POST /pair/start for hardware 1 and 2 and *)
(* POST /pair/claim of the first code: device 1 has session 1, device 2    *)
(* has a token and no session.                                             *)
(***************************************************************************)
PairedStore ==
    /\ now = 0
    /\ device = [d \in DevIds |->
                   IF d <= 2 THEN [hardware_uid |-> d, device_token |-> d]
                   ELSE NoRow]
    /\ pairing = [c \in Codes |->
                    IF c = 1 THEN [device_id |-> 1,
                                   expires_at |-> PAIR_TTL_SECONDS,
                                   claimed_at |-> 0]
                    ELSE IF c = 2 THEN [device_id |-> 2,
                                        expires_at |-> PAIR_TTL_SECONDS,
                                        claimed_at |-> Null]
                    ELSE NoRow]
    /\ session = <<[device_id |-> 1, expires_at |-> SESSION_TTL_MINUTES * 60]>>
    /\ CACHE = <<>>
    /\ tokenCtr = 2
    /\ pc = [w \in Workers |-> "idle"]
    /\ loc = [w \in Workers |-> NoLoc]
    /\ resp = NoResp
    /\ startLog = [h \in HwUids |->
                     IF h <= 2 THEN <<[device_id |-> h, device_token |-> h]>>
                     ELSE <<>>]
    /\ codeLog = [c \in Codes |->
                    IF c = 1 THEN [device_id |-> 1, sessions |-> {1}]
                    ELSE IF c = 2 THEN [device_id |-> 2, sessions |-> {}]
                    ELSE [device_id |-> 0, sessions |-> {}]]

InitPaired ==
    /\ PairedStore
    /\ module = [d \in DevIds |-> NoRow]
    /\ lastSet = [d \in DevIds |-> NoRow]

NextConfig ==
    \/ Tick
    \/ \E d \in DevIds, s \in 0..MaxSessions, m \in ConfigModules :
         SetModule(d, s, m.type, m.params)
    \/ \E w \in 1..NumPollers, tok \in 0..MaxTokens : ConfigBegin(w, tok)
    \/ \E w \in 1..NumPollers, out \in BtcAnswers \cup WeatherAnswers :
         ConfigFetchDone(w, out)

SpecConfig == InitPaired /\ [][NextConfig]_vars

(***************************************************************************)
(* Sessions over their whole life.  The run starts in the state the        *)
(* service is in at time 0 after POST /pair/start for hardware 1 and       *)
(* POST /pair/claim of its code, and runs past the expiry of the session.  *)
(***************************************************************************)
InitSession ==
    /\ now = 0
    /\ device = [d \in DevIds |->
                   IF d = 1 THEN [hardware_uid |-> 1, device_token |-> 1]
                   ELSE NoRow]
    /\ pairing = [c \in Codes |->
                    IF c = 1 THEN [device_id |-> 1,
                                   expires_at |-> PAIR_TTL_SECONDS,
                                   claimed_at |-> 0]
                    ELSE NoRow]
    /\ session = <<[device_id |-> 1, expires_at |-> SESSION_TTL_MINUTES * 60]>>
    /\ module = [d \in DevIds |-> NoRow]
    /\ CACHE = <<>>
    /\ tokenCtr = 1
    /\ pc = [w \in Workers |-> "idle"]
    /\ loc = [w \in Workers |-> NoLoc]
    /\ resp = NoResp
    /\ startLog = [h \in HwUids |->
                     IF h = 1 THEN <<[device_id |-> 1, device_token |-> 1]>>
                     ELSE <<>>]
    /\ codeLog = [c \in Codes |->
                    IF c = 1 THEN [device_id |-> 1, sessions |-> {1}]
                    ELSE [device_id |-> 0, sessions |-> {}]]
    /\ lastSet = [d \in DevIds |-> NoRow]

NextSession ==
    \/ Advance(MaxSessionTime)
    \/ \E w \in Workers, hw \in HwUids : StartBegin(w, hw)
    \/ \E w \in Workers : StartCommit(w)
    \/ \E w \in Workers, code \in Codes : ClaimBegin(w, code)
    \/ \E w \in Workers : ClaimCommit(w)
    \/ \E d \in DevIds, s \in 0..MaxSessions, m \in ServiceModules :
         SetModule(d, s, m.type, m.params)

SpecSession == InitSession /\ [][NextSession]_vars

(***************************************************************************)
(* The external-data cache.  The run starts in the paired state with a     *)
(* price or weather module stored for device 1 and a weather module for    *)
(* device 2 (as set_module stores them); two polls run concurrently and    *)
(* the clock runs past both cache TTLs.                                    *)
(***************************************************************************)
CacheModules ==
    {[type |-> "btc_price", params |-> EmptyParams],
     [type |-> "weather", params |-> EmptyParams],
     [type |-> "weather", params |-> [city |-> JStr(OSLO)]]}

InitCache ==
    /\ PairedStore
    /\ \E m \in CacheModules :
         /\ module = [d \in DevIds |->
                        IF d = 1 THEN m
                        ELSE IF d = 2
                        THEN [type |-> "weather", params |-> EmptyParams]
                        ELSE NoRow]
         /\ lastSet = [d \in DevIds |->
                         IF d <= 2
                         THEN [type |-> module[d].type,
                               params |-> module[d].params, replaced |-> {}]
                         ELSE NoRow]

\* the clock advances by the weather TTL
LongWait ==
    /\ now + WX_CACHE_TTL <= MaxCacheTime
    /\ now' = now + WX_CACHE_TTL
    /\ resp' = NoResp
    /\ UNCHANGED <<device, pairing, session, module, CACHE, tokenCtr, pc, loc,
                   startLog, codeLog, lastSet>>

NextCache ==
    \/ Tick
    \/ LongWait
    \/ \E w \in Workers, tok \in 0..MaxTokens : ConfigBegin(w, tok)
    \/ \E w \in Workers, out \in BtcAnswers \cup WeatherAnswers :
         ConfigFetchDone(w, out)

SpecCache == InitCache /\ [][NextCache]_vars

(***************************************************************************)
(* The text module.  The run starts in the paired state with a text module *)
(* stored for device 1 (as set_module stores it), the message and the      *)
(* width drawn from bounded sets; device_config renders it.                *)
(***************************************************************************)
PATTERN == <<"a", "b", "c", " ", "d", "e", "f", "g", "h", "i", "j">>

\* a message of n characters
MsgOf(n) == [i \in 1..n |-> PATTERN[((i - 1) % Len(PATTERN)) + 1]]

Spaces(n) == [i \in 1..n |-> " "]

TextMessages ==
    {Spaces(lead) \o MsgOf(n) \o Spaces(trail) :
        lead \in 0..MaxPad, trail \in 0..MaxPad, n \in 0..MaxMsgLen}

TextParams ==
    {[message |-> JStr(m), max_chars |-> JInt(w)] :
        m \in TextMessages, w \in 1..MaxWidth}
    \cup {[message |-> JStr(m)] : m \in TextMessages}

InitText ==
    /\ PairedStore
    /\ \E p \in TextParams :
         /\ module = [d \in DevIds |->
                        IF d = 1 THEN [type |-> "text", params |-> p] ELSE NoRow]
         /\ lastSet = [d \in DevIds |->
                         IF d = 1 THEN [type |-> "text", params |-> p,
                                        replaced |-> {}]
                         ELSE NoRow]

NextText ==
    \E w \in 1..NumPollers, tok \in 0..MaxTokens : ConfigBegin(w, tok)

SpecText == InitText /\ [][NextText]_vars

(***************************************************************************)
(* The minimal variant (main_db.py): POST /pair/start only, on the device  *)
(* and pairing tables.  The code is drawn once and is not looked up; there *)
(* is no try/except, so a store error is the framework's 500.              *)
(***************************************************************************)
InitMinimal == Init

\* up to the first write: SELECT id FROM device WHERE hardware_uid=?
MinStartBegin(w, hw) ==
    /\ FreeWorker(w)
    /\ tokenCtr + InFlight("start") < MaxTokens
    /\ pc' = [pc EXCEPT ![w] = "start_write"]
    /\ loc' = [loc EXCEPT ![w] =
                 [op |-> "start", hw |-> hw, row |-> FindDeviceByHw(device, hw)]]
    /\ resp' = NoResp
    /\ UNCHANGED <<now, device, pairing, session, module, CACHE, tokenCtr,
                   startLog, codeLog, lastSet>>

\* the write transaction: INSERT device, UPDATE token, INSERT OR REPLACE
\* pairing, commit
MinStartCommit(w) ==
    /\ pc[w] = "start_write"
    /\ pc' = [pc EXCEPT ![w] = "idle"]
    /\ loc' = [loc EXCEPT ![w] = NoLoc]
    /\ UNCHANGED <<now, session, module, CACHE, lastSet>>
    /\ LET hw == loc[w].hw
           row == loc[w].row
           tok == tokenCtr + 1
       IN IF row = Null /\ FindDeviceByHw(device, hw) # Null
          THEN \* UNIQUE constraint failed: device.hardware_uid
               /\ resp' = [NoResp EXCEPT !.op = "start", !.hw = hw,
                                         !.status = 500,
                                         !.detail = "Internal Server Error"]
               /\ UNCHANGED <<device, pairing, tokenCtr, startLog, codeLog>>
          ELSE \E code \in Codes :
               LET id == IF row = Null THEN FreshId(device) ELSE row
                   dev1 == IF row = Null THEN InsertDevice(device, id, hw)
                           ELSE device
               IN /\ device' = RotateToken(dev1, id, tok)
                  /\ pairing' = InsertOrReplacePairing(
                                   pairing, code, id, now + MIN_PAIR_TTL)
                  /\ tokenCtr' = tok
                  /\ resp' = [NoResp EXCEPT !.op = "start", !.hw = hw,
                                 !.status = 200, !.code = code,
                                 !.token = tok, !.dev = id]
                  /\ startLog' = LogStart(startLog, hw, id, tok)
                  /\ codeLog' = [codeLog EXCEPT ![code] =
                                   [device_id |-> id, sessions |-> {}]]

NextMinimal ==
    \/ Tick
    \/ \E w \in Workers, hw \in HwUids : MinStartBegin(w, hw)
    \/ \E w \in Workers : MinStartCommit(w)

SpecMinimal == InitMinimal /\ [][NextMinimal]_vars

(***************************************************************************)
(* Properties of pairing and authorization (Spec)                          *)
(***************************************************************************)
Live(row, t) == row # NoRow /\ row.claimed_at = Null /\ row.expires_at >= t

ValidSession(s, t) == s \in 1..Len(session) /\ session[s].expires_at >= t

\* C1: for every hardware_uid, two successful Start calls one after the
\* other return the same device_id and two different device_tokens, and from
\* then on device_config answers 401 to the first token and 200 to the
\* second.
C1_Step ==
    /\ \A hw \in HwUids :
         Len(startLog'[hw]) = 2 =>
            /\ startLog'[hw][1].device_id = startLog'[hw][2].device_id
            /\ startLog'[hw][1].device_token # startLog'[hw][2].device_token
    /\ \A hw \in HwUids :
         (Len(startLog[hw]) = 2 /\ resp'.op = "config") =>
            /\ resp'.token = startLog[hw][1].device_token => resp'.status = 401
            /\ resp'.token = startLog[hw][2].device_token => resp'.status = 200

C1_StartRotatesToken == [][C1_Step]_vars

\* a device_config request with the token of the first of two Starts has
\* been answered 401
C1_Witness ==
    \E hw \in HwUids :
        /\ Len(startLog[hw]) = 2
        /\ resp.op = "config"
        /\ resp.token = startLog[hw][1].device_token
        /\ resp.status = 401

\* C2: at most one session is ever created per pair code: of two concurrent
\* Claims of one code exactly one succeeds.
C2_OneSessionPerCode ==
    \A c \in Codes : Cardinality(codeLog[c].sessions) <= 1

\* C3: a Claim of a pairing that was never claimed and whose expires_at is
\* earlier than the current time is answered 400 "Code expired", creates no
\* session and leaves the pairing row as it is.
C3_Step ==
    \A w \in Workers, c \in Codes :
        (/\ ClaimBegin(w, c)
         /\ pairing[c] # NoRow
         /\ pairing[c].claimed_at = Null
         /\ pairing[c].expires_at < now)
        => /\ resp'.op = "claim"
           /\ resp'.status = 400
           /\ resp'.detail = "Code expired"
           /\ pc'[w] = "idle"
           /\ session' = session
           /\ pairing' = pairing

C3_ExpiredClaimFails == [][C3_Step]_vars

\* a Claim has been answered "Code expired"
C3_Witness ==
    /\ resp.op = "claim"
    /\ resp.detail = "Code expired"
    /\ \E c \in Codes : pairing[c] # NoRow /\ pairing[c].claimed_at = Null
                        /\ pairing[c].expires_at < now

\* C4: once a Claim of a code has succeeded, claimed_at of that pairing is
\* never reset or changed.
C4_Step ==
    \A c \in Codes :
        (pairing[c] # NoRow /\ pairing[c].claimed_at # Null)
        => (pairing'[c] # NoRow
            /\ pairing'[c].claimed_at = pairing[c].claimed_at)

C4_ClaimedAtImmutable == [][C4_Step]_vars

\* C5: a Claim of a code made while its pairing is unclaimed and unexpired
\* succeeds, returns the device_id that the Start of that code returned and
\* creates a session of that device, which set_module accepts for that
\* device as long as the session has not expired.
C5_Step ==
    /\ \A w \in Workers, c \in Codes :
         (ClaimBegin(w, c) /\ Live(pairing[c], now))
         => (pc'[w] = "claim_write" /\ loc'[w].code = c /\ resp' = NoResp)
    /\ \A w \in Workers :
         ClaimCommit(w)
         => /\ resp'.status = 200
            /\ resp'.dev = codeLog[loc[w].code].device_id
            /\ resp'.sess \in 1..Len(session')
            /\ resp'.sess \notin 1..Len(session)
            /\ session'[resp'.sess].device_id = resp'.dev
    /\ \A d \in DevIds, s \in 1..MaxSessions, m \in ServiceModules :
         (/\ SetModule(d, s, m.type, m.params)
          /\ m.type \in ModuleTypes
          /\ ValidSession(s, now)
          /\ \E c \in Codes : s \in codeLog[c].sessions
                              /\ codeLog[c].device_id = d)
         => resp'.status = 200

C5_ClaimBindsDevice == [][C5_Step]_vars

\* set_module has accepted a session that a Claim created at the last
\* second of its pairing
C5_Witness ==
    /\ resp.op = "set_module"
    /\ resp.status = 200
    /\ \E c \in Codes :
         /\ codeLog[c].sessions # {}
         /\ pairing[c].claimed_at = pairing[c].expires_at
         /\ module[codeLog[c].device_id] # NoRow

\* C6: set_module for device B with a valid, unexpired session of another
\* device A is answered 403 and changes no stored module config.
C6_Step ==
    \A d \in DevIds, s \in 1..MaxSessions, m \in ServiceModules :
        (/\ SetModule(d, s, m.type, m.params)
         /\ ValidSession(s, now)
         /\ session[s].device_id # d)
        => (resp'.status = 403 /\ module' = module)

C6_ForeignSessionRejected == [][C6_Step]_vars

\* a session of one device has been refused for another device that has a
\* stored config
C6_Witness ==
    /\ resp.op = "set_module"
    /\ resp.status = 403
    /\ \E d \in DevIds, s \in 1..Len(session) :
         session[s].device_id # d /\ module[d] # NoRow

\* the token and device of the last successful Start of a hardware_uid
LastStart(hw) == startLog[hw][Len(startLog[hw])]

\* C11: a successful Start of the full service never issues a pair code
\* that an unclaimed, unexpired pairing holds at that moment, and no step
\* replaces a live pairing row: a live code stays bound to the device whose
\* Start issued it.
C11_Step ==
    /\ \A w \in Workers :
         (StartCommit(w) /\ resp'.status = 200)
         => /\ ~Live(pairing[resp'.code], now)
            /\ pairing'[resp'.code].device_id = resp'.dev
    /\ \A c \in Codes :
         Live(pairing[c], now)
         => /\ pairing'[c] # NoRow
            /\ pairing'[c].device_id = pairing[c].device_id
            /\ pairing'[c].expires_at = pairing[c].expires_at

C11_LiveCodeNotReissued == [][C11_Step]_vars

\* a Start has succeeded while the other code was held by a live pairing of
\* another device
C11_Witness ==
    /\ resp.op = "start"
    /\ resp.status = 200
    /\ \E c \in Codes :
         /\ c # resp.code
         /\ Live(pairing[c], now)
         /\ pairing[c].device_id # resp.dev

\* C12: a Start that fails (the code attempts are exhausted, or the store
\* raises) leaves no device row, no token and no pairing row of its own:
\* the store is as before, and device_config still accepts the token of the
\* last successful Start of every device.
C12_Step ==
    /\ \A w \in Workers :
         (StartCommit(w) /\ resp'.status = 500)
         => /\ device' = device
            /\ pairing' = pairing
            /\ session' = session
            /\ module' = module
    /\ \A w \in Workers, hw \in HwUids :
         (Len(startLog[hw]) > 0 /\ ConfigBegin(w, LastStart(hw).device_token))
         => resp'.status = 200

C12_StartAllOrNothing == [][C12_Step]_vars

\* a Start of a registered device has failed and the token of its last
\* successful Start is still the stored one
C12_Witness ==
    /\ resp.op = "start"
    /\ resp.status = 500
    /\ Len(startLog[resp.hw]) > 0
    /\ device[LastStart(resp.hw).device_id].device_token
         = LastStart(resp.hw).device_token

\* the Start in slot w read the device table before another Start registered
\* its hardware_uid
StaleMiss(w) ==
    loc[w].row = Null /\ FindDeviceByHw(device, loc[w].hw) # Null

\* C13: two concurrent Starts for one hardware_uid, registered or not, both
\* succeed with the same device_id; every hardware_uid has at most one
\* device row; afterwards the one valid token of the device is the token of
\* the Start that committed last.
C13_Step ==
    /\ \A hw \in HwUids :
         Cardinality({d \in DevIds : device'[d] # NoRow
                                     /\ device'[d].hardware_uid = hw}) <= 1
    /\ \A w \in Workers :
         (StartCommit(w) /\ resp'.status = 200)
         => /\ Len(startLog[loc[w].hw]) > 0
                 => resp'.dev = LastStart(loc[w].hw).device_id
            /\ device'[resp'.dev].device_token = resp'.token
            /\ \A tok \in 1..MaxTokens :
                 FindDeviceByToken(device', tok) = resp'.dev
                    => tok = resp'.token
    /\ \A w \in Workers :
         (StartCommit(w) /\ StaleMiss(w)) => resp'.status = 200

C13_ConcurrentStartSameDevice == [][C13_Step]_vars

\* C16: Start re-draws only on a collision with an unclaimed, unexpired
\* pairing, so it fails for lack of a code only when its attempts collided
\* with live pairings; it never issues a live code.
C16_Step ==
    \A w \in Workers :
        (StartCommit(w) /\ ~StaleMiss(w))
        => /\ resp'.status = 500 => \E c \in Codes : Live(pairing[c], now)
           /\ resp'.status = 200 => ~Live(pairing[resp'.code], now)

C16_RedrawOnlyOnLiveCollision == [][C16_Step]_vars

\* C15: device isolation.  The answer of device_config to the token last
\* issued to device A is the render of A's own module row (and the cache);
\* set_module, Start and Claim for another device B change neither A's
\* module row nor A's device row, so A's answers are the same whatever is
\* done to B; a token resolves only to the device it was last issued to.
C15_Step ==
    /\ resp'.op = "set_module"
         => \A d \in DevIds, s \in 0..MaxSessions, m \in ServiceModules :
              SetModule(d, s, m.type, m.params)
              => /\ device' = device
                 /\ \A a \in DevIds \ {d} : module'[a] = module[a]
    /\ resp'.op = "start"
         => \A w \in Workers :
              StartCommit(w)
              => /\ module' = module
                 /\ \A a \in DevIds :
                      (device[a] # NoRow /\ device[a].hardware_uid # loc[w].hw)
                      => device'[a] = device[a]
    /\ (resp'.op = "claim" \/ \E w \in Workers : pc'[w] = "claim_write")
         => \A w \in Workers, c \in Codes :
              (ClaimBegin(w, c) \/ ClaimCommit(w))
              => (module' = module /\ device' = device)
    /\ (resp'.op = "config" \/ \E w \in Workers : pc'[w] = "fetch")
         => \A w \in Workers, hw \in HwUids :
              (/\ Len(startLog[hw]) > 0
               /\ ConfigBegin(w, LastStart(hw).device_token))
              => LET a == LastStart(hw).device_id
                     plan == ConfigPlan(module[a], CACHE, now)
                 IN IF plan.wait
                    THEN pc'[w] = "fetch" /\ loc'[w].dev = a
                    ELSE resp' = [ConfigResp(plan.result)
                                    EXCEPT !.token = LastStart(hw).device_token]
    /\ (resp'.op = "config" /\ resp'.status = 200)
         => \E hw \in HwUids :
               /\ Len(startLog[hw]) > 0
               /\ LastStart(hw).device_token = resp'.token

C15_DeviceIsolation == [][C15_Step]_vars

\* device_config has given the "Not configured" render to the token of a
\* device while another device has a stored config
C15_Witness ==
    /\ resp.op = "config"
    /\ resp.status = 200
    /\ resp.lines = <<NOT_CONFIGURED, PICK_MODULE>>
    /\ \E a, b \in DevIds :
         /\ a # b
         /\ device[a] # NoRow
         /\ device[a].device_token = resp.token
         /\ module[a] = NoRow
         /\ module[b] # NoRow

(***************************************************************************)
(* Properties of sessions (SpecSession)                                    *)
(***************************************************************************)
\* C14: set_module for device D accepts a session that a Claim created for D
\* at every time up to its expires_at and answers 401 at every later time;
\* no Start, pairing or Claim changes a session row, so none revokes or
\* extends it; a missing or unknown session token is answered 401 and the
\* store stays as it is.
C14_Step ==
    /\ \A s \in 1..Len(session) : s <= Len(session') /\ session'[s] = session[s]
    /\ \A d \in DevIds, s \in 0..MaxSessions, m \in ServiceModules :
         SetModule(d, s, m.type, m.params)
         => IF s \in 1..Len(session)
            THEN IF now <= session[s].expires_at
                 THEN /\ resp'.status # 401
                      /\ (session[s].device_id = d /\ m.type \in ModuleTypes)
                            => (resp'.status = 200 /\ module'[d] # NoRow)
                 ELSE /\ resp'.status = 401
                      /\ module' = module
            ELSE /\ resp'.status = 401
                 /\ module' = module
                 /\ device' = device
                 /\ pairing' = pairing
                 /\ session' = session

C14_SessionValidUntilExpiry == [][C14_Step]_vars

\* set_module has refused the expired first session of device 1 after the
\* token of the device was rotated and a second session was created
C14_Witness ==
    /\ resp.op = "set_module"
    /\ resp.status = 401
    /\ resp.detail = "Session expired"
    /\ session[1].expires_at < now
    /\ device[1].device_token # 1
    /\ Len(session) = 2

(***************************************************************************)
(* Properties of config resolution and rendering (SpecConfig)              *)
(***************************************************************************)
\* C7: the device_config call that follows a successful set_module(device,
\* type, params) with the device's current token renders from exactly that
\* type and params; the stored config is the last one set, with no key of
\* an earlier params left; a device with no stored config gets the
\* "Not configured" render.
C7_Step ==
    /\ \A d \in DevIds :
         lastSet'[d] # NoRow =>
            module'[d] = [type |-> lastSet'[d].type,
                          params |-> lastSet'[d].params]
    /\ \A w \in Workers, tok \in 0..MaxTokens :
         (ConfigBegin(w, tok) /\ FindDeviceByToken(device, tok) # Null)
         => LET d == FindDeviceByToken(device, tok)
            IN IF lastSet[d] = NoRow
               THEN /\ resp'.status = 200
                    /\ resp'.lines = <<NOT_CONFIGURED, PICK_MODULE>>
               ELSE LET plan == ConfigPlan([type |-> lastSet[d].type,
                                            params |-> lastSet[d].params],
                                           CACHE, now)
                    IN IF plan.wait
                       THEN /\ pc'[w] = "fetch"
                            /\ loc'[w].dev = d
                            /\ loc'[w].mtype = lastSet[d].type
                            /\ loc'[w].key = plan.key
                       ELSE /\ resp'.status = 200
                            /\ resp'.lines = plan.result.v.lines
                            /\ resp'.ttl = plan.result.v.ttl
    /\ \A w \in Workers, out \in BtcAnswers \cup WeatherAnswers :
         ConfigFetchDone(w, out)
         => /\ resp'.status = 200
            /\ resp'.token = loc[w].token
            /\ loc[w].mtype = "btc_price"
                 => SubSeq(resp'.lines[1], 1, Len(BTC_PREFIX)) = BTC_PREFIX
            /\ loc[w].mtype = "weather"
                 => resp'.lines[1] \in {out.name, loc[w].city}

C7_LatestConfigWins == [][C7_Step]_vars

\* a text config with message and max_chars was replaced by one with empty
\* params, and device_config answered with the render of the default message
C7_Witness ==
    /\ lastSet[1] # NoRow
    /\ lastSet[1].type = "text"
    /\ lastSet[1].params = EmptyParams
    /\ lastSet[1].replaced = {"message", "max_chars"}
    /\ resp.op = "config"
    /\ resp.token = device[1].device_token
    /\ resp.lines = <<SubSeq(HELLO, 1, DEFAULT_WIDTH), <<"!">> >>

\* C8: for a btc_price device whose price provider is unreachable or times
\* out, device_config returns a render with non-empty lines whose ttl is at
\* most the ttl of the error render.
C8_Step ==
    \A w \in Workers, out \in BtcAnswers :
        (ConfigFetchDone(w, out) /\ loc[w].mtype = "btc_price" /\ ~out.ok)
        => /\ resp'.status = 200
           /\ resp'.lines # <<>>
           /\ \A i \in 1..Len(resp'.lines) : resp'.lines[i] # <<>>
           /\ resp'.ttl <= ERR_TTL

C8_BtcFailureShortTtl == [][C8_Step]_vars

\* the render of device_config for a stored module row whose rendering raises
IsErrorRender(r, err) ==
    /\ r.status = 200
    /\ Len(r.lines) = 2
    /\ r.lines[1] = ERR_FETCHING
    /\ r.lines[2] = SubSeq(err, 1, Min(ERR_CHARS, Len(err)))
    /\ Len(r.lines[2]) <= ERR_CHARS
    /\ r.ttl = ERR_TTL
    /\ r.poll = ERR_POLL

\* C9: with a valid device token and a stored module of type text,
\* btc_price or weather, device_config never answers with an error, whatever
\* the stored params and the upstream answer: an exception raised while
\* rendering becomes the 2-line error render (generic first line, the
\* diagnostic cut to ERR_CHARS characters) with the short ttl and poll
\* interval; only an invalid device token is answered with an error (401).
C9_Step ==
    /\ resp'.op = "config" => resp'.status \in {200, 401}
    /\ \A w \in Workers, tok \in 0..MaxTokens :
         ConfigBegin(w, tok)
         => LET d == FindDeviceByToken(device, tok)
            IN IF d = Null THEN resp'.status = 401
               ELSE /\ pc'[w] = "fetch" \/ resp'.status = 200
                    /\ (module[d] # NoRow /\ module[d].type = "text"
                        /\ ~RenderText(module[d].params).ok)
                       => IsErrorRender(resp', RenderText(module[d].params).err)
                    /\ (module[d] # NoRow /\ module[d].type = "weather"
                        /\ ~WeatherKey(Get(module[d].params, "city",
                                           JStr(PORTLAND))).ok)
                       => IsErrorRender(resp',
                             WeatherKey(Get(module[d].params, "city",
                                            JStr(PORTLAND))).err)
    /\ \A w \in Workers, out \in BtcAnswers \cup WeatherAnswers :
         ConfigFetchDone(w, out)
         => (resp'.status = 200 /\ Len(resp'.lines) = 2)

C9_RenderNeverFails == [][C9_Step]_vars

\* device_config has answered a stored text module whose max_chars is not a
\* number with the error render, the diagnostic cut to ERR_CHARS characters
C9_Witness ==
    /\ resp.op = "config"
    /\ resp.status = 200
    /\ Len(resp.lines) = 2
    /\ resp.lines[1] = ERR_FETCHING
    /\ Len(resp.lines[2]) = ERR_CHARS
    /\ module[1] # NoRow
    /\ module[1].type = "text"
    /\ ~RenderText(module[1].params).ok

\* C19: every successful device_config response for a device with a stored
\* config carries at least one display line, whatever the module type and
\* the stored params (a non-positive or non-numeric max_chars included).
C19_AtLeastOneLine ==
    (/\ resp.op = "config"
     /\ resp.status = 200
     /\ FindDeviceByToken(device, resp.token) # Null
     /\ module[FindDeviceByToken(device, resp.token)] # NoRow)
    => Len(resp.lines) >= 1

(***************************************************************************)
(* Properties of the external-data cache (SpecCache)                       *)
(***************************************************************************)
\* the TTL of the cache entries of a module type
CacheTtl(mtype) == IF mtype = "btc_price" THEN BTC_CACHE_TTL ELSE WX_CACHE_TTL

\* the cache key of a stored price or weather module
SourceKey(mrow) ==
    IF mrow.type = "btc_price" THEN BTC_KEY
    ELSE WeatherKey(Get(mrow.params, "city", JStr(PORTLAND))).v

\* the render of a cached value
RenderCached(mrow, value) ==
    IF mrow.type = "btc_price" THEN RenderBtc(value) ELSE RenderWeather(value)

\* what a successful upstream answer is turned into
Fetched(l, out) ==
    IF l.mtype = "btc_price"
    THEN [price_usd |-> out.a, change_24h |-> out.b]
    ELSE [temp_c |-> out.a, windspeed_kph |-> out.b, city |-> out.name]

\* C17: the cache never serves an expired entry.  Only a successful fetch
\* writes the cache, and it overwrites the entry of its key with the fetched
\* value and the expiry now + TTL of the type (30 s price, 300 s weather),
\* also when two polls fetch one key concurrently; a poll is served from the
\* cache only while the entry is at most that TTL old, and a miss or an
\* expired entry makes the poll call the upstream.
C17_Step ==
    /\ CACHE' # CACHE
         => \E w \in Workers, out \in BtcAnswers \cup WeatherAnswers :
               ConfigFetchDone(w, out) /\ out.ok
    /\ \A w \in Workers, out \in BtcAnswers \cup WeatherAnswers :
         (ConfigFetchDone(w, out) /\ out.ok)
         => LET k == loc[w].key
            IN /\ k \in DOMAIN CACHE'
               /\ CACHE'[k].value = Fetched(loc[w], out)
               /\ CACHE'[k].expires_at = now + CacheTtl(loc[w].mtype)
               /\ \A j \in DOMAIN CACHE \ {k} : CACHE'[j] = CACHE[j]
    /\ \A w \in Workers, tok \in 1..MaxTokens :
         (/\ ConfigBegin(w, tok)
          /\ FindDeviceByToken(device, tok) # Null
          /\ module[FindDeviceByToken(device, tok)] # NoRow
          /\ module[FindDeviceByToken(device, tok)].type
                \in {"btc_price", "weather"})
         => LET mrow == module[FindDeviceByToken(device, tok)]
                k == SourceKey(mrow)
            IN IF k \in DOMAIN CACHE /\ now <= CACHE[k].expires_at
               THEN /\ resp'.status = 200
                    /\ resp'.lines = RenderCached(mrow, CACHE[k].value).lines
                    /\ now - (CACHE[k].expires_at - CacheTtl(mrow.type))
                          \in 0..CacheTtl(mrow.type)
                    /\ pc' = pc
               ELSE /\ pc'[w] = "fetch"
                    /\ loc'[w].key = k
                    /\ resp' = NoResp

C17_CacheNeverServesExpired == [][C17_Step]_vars

\* a poll has been served the cached price in the last second of the entry,
\* and the other poll is waiting for the upstream
C17_Witness ==
    /\ resp.op = "config"
    /\ resp.status = 200
    /\ BTC_KEY \in DOMAIN CACHE
    /\ CACHE[BTC_KEY].expires_at = now
    /\ resp.lines = RenderBtc(CACHE[BTC_KEY].value).lines
    /\ \E w \in Workers : pc[w] = "fetch"

\* C18: a failed upstream fetch (price or weather) leaves the cache as it
\* is: the fallback value is never stored, so the next poll of that source
\* calls the upstream again, and a successful answer is what the poll
\* returns.
C18_Step ==
    /\ \A w \in Workers, out \in BtcAnswers \cup WeatherAnswers :
         ConfigFetchDone(w, out)
         => IF out.ok
            THEN resp'.lines =
                   (IF loc[w].mtype = "btc_price"
                    THEN RenderBtc(Fetched(loc[w], out))
                    ELSE RenderWeather(Fetched(loc[w], out))).lines
            ELSE CACHE' = CACHE /\ resp'.status = 200
    /\ \A k \in DOMAIN CACHE' :
         IF k = BTC_KEY THEN CACHE'[k].value.price_usd # FALLBACK_PRICE
         ELSE CACHE'[k].value.temp_c # FALLBACK_TEMP
    /\ \A w \in Workers, tok \in 1..MaxTokens :
         (/\ ConfigBegin(w, tok)
          /\ FindDeviceByToken(device, tok) # Null
          /\ module[FindDeviceByToken(device, tok)] # NoRow
          /\ module[FindDeviceByToken(device, tok)].type
                \in {"btc_price", "weather"}
          /\ SourceKey(module[FindDeviceByToken(device, tok)])
                \notin DOMAIN CACHE)
         => pc'[w] = "fetch"

C18_FailedFetchNotCached == [][C18_Step]_vars

\* a poll has returned the fallback price and the cache has no price entry
C18_Witness ==
    /\ resp.op = "config"
    /\ resp.status = 200
    /\ resp.lines = RenderBtc(BtcData(UpstreamFailure)).lines
    /\ BTC_KEY \notin DOMAIN CACHE
    /\ now > 0

(***************************************************************************)
(* Properties of the minimal variant (SpecMinimal)                         *)
(***************************************************************************)
\* C20: in the minimal variant too a successful Start issues a code that no
\* unclaimed, unexpired pairing holds: a Start for one device never replaces
\* the live pairing row of another device, so a live code never changes the
\* device it is bound to.
C20_Step ==
    \A c \in Codes :
        Live(pairing[c], now)
        => (pairing'[c] # NoRow
            /\ pairing'[c].device_id = pairing[c].device_id)

C20_MinimalLiveCodeKept == [][C20_Step]_vars

(***************************************************************************)
(* Properties of the text module (SpecText)                                *)
(***************************************************************************)
\* the lines the text module is to show for the stored params
TextSource(params) ==
    LET m == Strip(params.message.s)
    IN IF m = <<>> THEN HELLO ELSE m

TextWidth(params) ==
    IF "max_chars" \in DOMAIN params THEN params.max_chars.n ELSE DEFAULT_WIDTH

\* C10: for a text module with trimmed non-empty message m and max_chars
\* w >= 1 the rendered lines are the first min(4, ceil(len(m)/w)) consecutive
\* w-column slices of m in order: every line but the last has length w and
\* no line is longer than w (length 40 with w = 16 gives [16, 16, 8]); an
\* empty or whitespace-only message renders the default message instead.
C10_Step ==
    \A w \in Workers, tok \in 0..MaxTokens :
        (/\ ConfigBegin(w, tok)
         /\ FindDeviceByToken(device, tok) = 1
         /\ module[1] # NoRow
         /\ module[1].type = "text"
         /\ TextWidth(module[1].params) >= 1)
        => LET m == TextSource(module[1].params)
               width == TextWidth(module[1].params)
               full == Len(m) \div width
               count == IF Len(m) % width = 0 THEN full ELSE full + 1
               n == IF count < 4 THEN count ELSE 4
               lines == resp'.lines
           IN /\ resp'.status = 200
              /\ Len(lines) = n
              /\ \A k \in 1..n :
                   /\ Len(lines[k]) <= width
                   /\ k < n => Len(lines[k]) = width
                   /\ \A i \in 1..Len(lines[k]) :
                        lines[k][i] = m[(k - 1) * width + i]
              /\ (n = count) => (n - 1) * width + Len(lines[n]) = Len(m)
              /\ (Len(m) = 40 /\ width = 16)
                   => <<Len(lines[1]), Len(lines[2]), Len(lines[3])>>
                      = <<16, 16, 8>>

C10_TextSlices == [][C10_Step]_vars

\* a message of 40 characters with max_chars 16 has been rendered in three
\* lines of 16, 16 and 8 characters
C10_Witness ==
    /\ resp.op = "config"
    /\ resp.status = 200
    /\ module[1] # NoRow
    /\ "max_chars" \in DOMAIN module[1].params
    /\ module[1].params.max_chars.n = 16
    /\ Len(Strip(module[1].params.message.s)) = 40
    /\ resp.token = device[1].device_token
    /\ Len(resp.lines) = 3
    /\ Len(resp.lines[3]) = 8

\* an empty or whitespace-only message has been rendered as the default
\* message
C10_DefaultWitness ==
    /\ resp.op = "config"
    /\ resp.token = device[1].device_token
    /\ module[1] # NoRow
    /\ Strip(module[1].params.message.s) = <<>>
    /\ module[1].params.message.s # <<>>
    /\ resp.lines[1] = SubSeq(HELLO, 1, Min(Len(HELLO), TextWidth(module[1].params)))

====
